---- MODULE Spec2Model ----
(***************************************************************************)
(* Model of the calendar tool adapter of kai-assistant                     *)
(* (src/agents/calendar_agent/tools.py): the date-correction function      *)
(* ensure_correct_date and the GoogleCalendarTools operations over the     *)
(* calendar backend.                                                       *)
(*                                                                         *)
(* Python strings are sequences of one-character strings, so that the      *)
(* regular expression of ensure_correct_date is modelled by what it        *)
(* matches.  Python values carry a type tag: [type |-> "str", s |-> ...]   *)
(* for str, [type |-> "datetime", ...] for datetime objects.               *)
(* A character outside printable ASCII that has no escape in a string is   *)
(* written by its code point, "<U+0660>" for ARABIC-INDIC DIGIT ZERO.      *)
(***************************************************************************)
EXTENDS Integers, Sequences, FiniteSets, TLC

\* -------------------------------------------------------------------------
\* Characters and strings
\* -------------------------------------------------------------------------

NL == "\n"

\* the decimal digits (Unicode category Nd), the digits 0 to 9 of one script
\* per row: what \d matches in a str pattern and what int() reads
DecimalDigits ==
    << << "0", "1", "2", "3", "4", "5", "6", "7", "8", "9" >>,
       << "<U+0660>", "<U+0661>", "<U+0662>", "<U+0663>", "<U+0664>", "<U+0665>", "<U+0666>", "<U+0667>", "<U+0668>", "<U+0669>" >>,
       << "<U+06F0>", "<U+06F1>", "<U+06F2>", "<U+06F3>", "<U+06F4>", "<U+06F5>", "<U+06F6>", "<U+06F7>", "<U+06F8>", "<U+06F9>" >>,
       << "<U+07C0>", "<U+07C1>", "<U+07C2>", "<U+07C3>", "<U+07C4>", "<U+07C5>", "<U+07C6>", "<U+07C7>", "<U+07C8>", "<U+07C9>" >>,
       << "<U+0966>", "<U+0967>", "<U+0968>", "<U+0969>", "<U+096A>", "<U+096B>", "<U+096C>", "<U+096D>", "<U+096E>", "<U+096F>" >>,
       << "<U+09E6>", "<U+09E7>", "<U+09E8>", "<U+09E9>", "<U+09EA>", "<U+09EB>", "<U+09EC>", "<U+09ED>", "<U+09EE>", "<U+09EF>" >>,
       << "<U+0A66>", "<U+0A67>", "<U+0A68>", "<U+0A69>", "<U+0A6A>", "<U+0A6B>", "<U+0A6C>", "<U+0A6D>", "<U+0A6E>", "<U+0A6F>" >>,
       << "<U+0AE6>", "<U+0AE7>", "<U+0AE8>", "<U+0AE9>", "<U+0AEA>", "<U+0AEB>", "<U+0AEC>", "<U+0AED>", "<U+0AEE>", "<U+0AEF>" >>,
       << "<U+0B66>", "<U+0B67>", "<U+0B68>", "<U+0B69>", "<U+0B6A>", "<U+0B6B>", "<U+0B6C>", "<U+0B6D>", "<U+0B6E>", "<U+0B6F>" >>,
       << "<U+0BE6>", "<U+0BE7>", "<U+0BE8>", "<U+0BE9>", "<U+0BEA>", "<U+0BEB>", "<U+0BEC>", "<U+0BED>", "<U+0BEE>", "<U+0BEF>" >>,
       << "<U+0C66>", "<U+0C67>", "<U+0C68>", "<U+0C69>", "<U+0C6A>", "<U+0C6B>", "<U+0C6C>", "<U+0C6D>", "<U+0C6E>", "<U+0C6F>" >>,
       << "<U+0CE6>", "<U+0CE7>", "<U+0CE8>", "<U+0CE9>", "<U+0CEA>", "<U+0CEB>", "<U+0CEC>", "<U+0CED>", "<U+0CEE>", "<U+0CEF>" >>,
       << "<U+0D66>", "<U+0D67>", "<U+0D68>", "<U+0D69>", "<U+0D6A>", "<U+0D6B>", "<U+0D6C>", "<U+0D6D>", "<U+0D6E>", "<U+0D6F>" >>,
       << "<U+0DE6>", "<U+0DE7>", "<U+0DE8>", "<U+0DE9>", "<U+0DEA>", "<U+0DEB>", "<U+0DEC>", "<U+0DED>", "<U+0DEE>", "<U+0DEF>" >>,
       << "<U+0E50>", "<U+0E51>", "<U+0E52>", "<U+0E53>", "<U+0E54>", "<U+0E55>", "<U+0E56>", "<U+0E57>", "<U+0E58>", "<U+0E59>" >>,
       << "<U+0ED0>", "<U+0ED1>", "<U+0ED2>", "<U+0ED3>", "<U+0ED4>", "<U+0ED5>", "<U+0ED6>", "<U+0ED7>", "<U+0ED8>", "<U+0ED9>" >>,
       << "<U+0F20>", "<U+0F21>", "<U+0F22>", "<U+0F23>", "<U+0F24>", "<U+0F25>", "<U+0F26>", "<U+0F27>", "<U+0F28>", "<U+0F29>" >>,
       << "<U+1040>", "<U+1041>", "<U+1042>", "<U+1043>", "<U+1044>", "<U+1045>", "<U+1046>", "<U+1047>", "<U+1048>", "<U+1049>" >>,
       << "<U+1090>", "<U+1091>", "<U+1092>", "<U+1093>", "<U+1094>", "<U+1095>", "<U+1096>", "<U+1097>", "<U+1098>", "<U+1099>" >>,
       << "<U+17E0>", "<U+17E1>", "<U+17E2>", "<U+17E3>", "<U+17E4>", "<U+17E5>", "<U+17E6>", "<U+17E7>", "<U+17E8>", "<U+17E9>" >>,
       << "<U+1810>", "<U+1811>", "<U+1812>", "<U+1813>", "<U+1814>", "<U+1815>", "<U+1816>", "<U+1817>", "<U+1818>", "<U+1819>" >>,
       << "<U+1946>", "<U+1947>", "<U+1948>", "<U+1949>", "<U+194A>", "<U+194B>", "<U+194C>", "<U+194D>", "<U+194E>", "<U+194F>" >>,
       << "<U+19D0>", "<U+19D1>", "<U+19D2>", "<U+19D3>", "<U+19D4>", "<U+19D5>", "<U+19D6>", "<U+19D7>", "<U+19D8>", "<U+19D9>" >>,
       << "<U+1A80>", "<U+1A81>", "<U+1A82>", "<U+1A83>", "<U+1A84>", "<U+1A85>", "<U+1A86>", "<U+1A87>", "<U+1A88>", "<U+1A89>" >>,
       << "<U+1A90>", "<U+1A91>", "<U+1A92>", "<U+1A93>", "<U+1A94>", "<U+1A95>", "<U+1A96>", "<U+1A97>", "<U+1A98>", "<U+1A99>" >>,
       << "<U+1B50>", "<U+1B51>", "<U+1B52>", "<U+1B53>", "<U+1B54>", "<U+1B55>", "<U+1B56>", "<U+1B57>", "<U+1B58>", "<U+1B59>" >>,
       << "<U+1BB0>", "<U+1BB1>", "<U+1BB2>", "<U+1BB3>", "<U+1BB4>", "<U+1BB5>", "<U+1BB6>", "<U+1BB7>", "<U+1BB8>", "<U+1BB9>" >>,
       << "<U+1C40>", "<U+1C41>", "<U+1C42>", "<U+1C43>", "<U+1C44>", "<U+1C45>", "<U+1C46>", "<U+1C47>", "<U+1C48>", "<U+1C49>" >>,
       << "<U+1C50>", "<U+1C51>", "<U+1C52>", "<U+1C53>", "<U+1C54>", "<U+1C55>", "<U+1C56>", "<U+1C57>", "<U+1C58>", "<U+1C59>" >>,
       << "<U+A620>", "<U+A621>", "<U+A622>", "<U+A623>", "<U+A624>", "<U+A625>", "<U+A626>", "<U+A627>", "<U+A628>", "<U+A629>" >>,
       << "<U+A8D0>", "<U+A8D1>", "<U+A8D2>", "<U+A8D3>", "<U+A8D4>", "<U+A8D5>", "<U+A8D6>", "<U+A8D7>", "<U+A8D8>", "<U+A8D9>" >>,
       << "<U+A900>", "<U+A901>", "<U+A902>", "<U+A903>", "<U+A904>", "<U+A905>", "<U+A906>", "<U+A907>", "<U+A908>", "<U+A909>" >>,
       << "<U+A9D0>", "<U+A9D1>", "<U+A9D2>", "<U+A9D3>", "<U+A9D4>", "<U+A9D5>", "<U+A9D6>", "<U+A9D7>", "<U+A9D8>", "<U+A9D9>" >>,
       << "<U+A9F0>", "<U+A9F1>", "<U+A9F2>", "<U+A9F3>", "<U+A9F4>", "<U+A9F5>", "<U+A9F6>", "<U+A9F7>", "<U+A9F8>", "<U+A9F9>" >>,
       << "<U+AA50>", "<U+AA51>", "<U+AA52>", "<U+AA53>", "<U+AA54>", "<U+AA55>", "<U+AA56>", "<U+AA57>", "<U+AA58>", "<U+AA59>" >>,
       << "<U+ABF0>", "<U+ABF1>", "<U+ABF2>", "<U+ABF3>", "<U+ABF4>", "<U+ABF5>", "<U+ABF6>", "<U+ABF7>", "<U+ABF8>", "<U+ABF9>" >>,
       << "<U+FF10>", "<U+FF11>", "<U+FF12>", "<U+FF13>", "<U+FF14>", "<U+FF15>", "<U+FF16>", "<U+FF17>", "<U+FF18>", "<U+FF19>" >>,
       << "<U+104A0>", "<U+104A1>", "<U+104A2>", "<U+104A3>", "<U+104A4>", "<U+104A5>", "<U+104A6>", "<U+104A7>", "<U+104A8>", "<U+104A9>" >>,
       << "<U+10D30>", "<U+10D31>", "<U+10D32>", "<U+10D33>", "<U+10D34>", "<U+10D35>", "<U+10D36>", "<U+10D37>", "<U+10D38>", "<U+10D39>" >>,
       << "<U+11066>", "<U+11067>", "<U+11068>", "<U+11069>", "<U+1106A>", "<U+1106B>", "<U+1106C>", "<U+1106D>", "<U+1106E>", "<U+1106F>" >>,
       << "<U+110F0>", "<U+110F1>", "<U+110F2>", "<U+110F3>", "<U+110F4>", "<U+110F5>", "<U+110F6>", "<U+110F7>", "<U+110F8>", "<U+110F9>" >>,
       << "<U+11136>", "<U+11137>", "<U+11138>", "<U+11139>", "<U+1113A>", "<U+1113B>", "<U+1113C>", "<U+1113D>", "<U+1113E>", "<U+1113F>" >>,
       << "<U+111D0>", "<U+111D1>", "<U+111D2>", "<U+111D3>", "<U+111D4>", "<U+111D5>", "<U+111D6>", "<U+111D7>", "<U+111D8>", "<U+111D9>" >>,
       << "<U+112F0>", "<U+112F1>", "<U+112F2>", "<U+112F3>", "<U+112F4>", "<U+112F5>", "<U+112F6>", "<U+112F7>", "<U+112F8>", "<U+112F9>" >>,
       << "<U+11450>", "<U+11451>", "<U+11452>", "<U+11453>", "<U+11454>", "<U+11455>", "<U+11456>", "<U+11457>", "<U+11458>", "<U+11459>" >>,
       << "<U+114D0>", "<U+114D1>", "<U+114D2>", "<U+114D3>", "<U+114D4>", "<U+114D5>", "<U+114D6>", "<U+114D7>", "<U+114D8>", "<U+114D9>" >>,
       << "<U+11650>", "<U+11651>", "<U+11652>", "<U+11653>", "<U+11654>", "<U+11655>", "<U+11656>", "<U+11657>", "<U+11658>", "<U+11659>" >>,
       << "<U+116C0>", "<U+116C1>", "<U+116C2>", "<U+116C3>", "<U+116C4>", "<U+116C5>", "<U+116C6>", "<U+116C7>", "<U+116C8>", "<U+116C9>" >>,
       << "<U+11730>", "<U+11731>", "<U+11732>", "<U+11733>", "<U+11734>", "<U+11735>", "<U+11736>", "<U+11737>", "<U+11738>", "<U+11739>" >>,
       << "<U+118E0>", "<U+118E1>", "<U+118E2>", "<U+118E3>", "<U+118E4>", "<U+118E5>", "<U+118E6>", "<U+118E7>", "<U+118E8>", "<U+118E9>" >>,
       << "<U+11950>", "<U+11951>", "<U+11952>", "<U+11953>", "<U+11954>", "<U+11955>", "<U+11956>", "<U+11957>", "<U+11958>", "<U+11959>" >>,
       << "<U+11C50>", "<U+11C51>", "<U+11C52>", "<U+11C53>", "<U+11C54>", "<U+11C55>", "<U+11C56>", "<U+11C57>", "<U+11C58>", "<U+11C59>" >>,
       << "<U+11D50>", "<U+11D51>", "<U+11D52>", "<U+11D53>", "<U+11D54>", "<U+11D55>", "<U+11D56>", "<U+11D57>", "<U+11D58>", "<U+11D59>" >>,
       << "<U+11DA0>", "<U+11DA1>", "<U+11DA2>", "<U+11DA3>", "<U+11DA4>", "<U+11DA5>", "<U+11DA6>", "<U+11DA7>", "<U+11DA8>", "<U+11DA9>" >>,
       << "<U+16A60>", "<U+16A61>", "<U+16A62>", "<U+16A63>", "<U+16A64>", "<U+16A65>", "<U+16A66>", "<U+16A67>", "<U+16A68>", "<U+16A69>" >>,
       << "<U+16AC0>", "<U+16AC1>", "<U+16AC2>", "<U+16AC3>", "<U+16AC4>", "<U+16AC5>", "<U+16AC6>", "<U+16AC7>", "<U+16AC8>", "<U+16AC9>" >>,
       << "<U+16B50>", "<U+16B51>", "<U+16B52>", "<U+16B53>", "<U+16B54>", "<U+16B55>", "<U+16B56>", "<U+16B57>", "<U+16B58>", "<U+16B59>" >>,
       << "<U+1D7CE>", "<U+1D7CF>", "<U+1D7D0>", "<U+1D7D1>", "<U+1D7D2>", "<U+1D7D3>", "<U+1D7D4>", "<U+1D7D5>", "<U+1D7D6>", "<U+1D7D7>" >>,
       << "<U+1D7D8>", "<U+1D7D9>", "<U+1D7DA>", "<U+1D7DB>", "<U+1D7DC>", "<U+1D7DD>", "<U+1D7DE>", "<U+1D7DF>", "<U+1D7E0>", "<U+1D7E1>" >>,
       << "<U+1D7E2>", "<U+1D7E3>", "<U+1D7E4>", "<U+1D7E5>", "<U+1D7E6>", "<U+1D7E7>", "<U+1D7E8>", "<U+1D7E9>", "<U+1D7EA>", "<U+1D7EB>" >>,
       << "<U+1D7EC>", "<U+1D7ED>", "<U+1D7EE>", "<U+1D7EF>", "<U+1D7F0>", "<U+1D7F1>", "<U+1D7F2>", "<U+1D7F3>", "<U+1D7F4>", "<U+1D7F5>" >>,
       << "<U+1D7F6>", "<U+1D7F7>", "<U+1D7F8>", "<U+1D7F9>", "<U+1D7FA>", "<U+1D7FB>", "<U+1D7FC>", "<U+1D7FD>", "<U+1D7FE>", "<U+1D7FF>" >>,
       << "<U+1E140>", "<U+1E141>", "<U+1E142>", "<U+1E143>", "<U+1E144>", "<U+1E145>", "<U+1E146>", "<U+1E147>", "<U+1E148>", "<U+1E149>" >>,
       << "<U+1E2F0>", "<U+1E2F1>", "<U+1E2F2>", "<U+1E2F3>", "<U+1E2F4>", "<U+1E2F5>", "<U+1E2F6>", "<U+1E2F7>", "<U+1E2F8>", "<U+1E2F9>" >>,
       << "<U+1E950>", "<U+1E951>", "<U+1E952>", "<U+1E953>", "<U+1E954>", "<U+1E955>", "<U+1E956>", "<U+1E957>", "<U+1E958>", "<U+1E959>" >>,
       << "<U+1FBF0>", "<U+1FBF1>", "<U+1FBF2>", "<U+1FBF3>", "<U+1FBF4>", "<U+1FBF5>", "<U+1FBF6>", "<U+1FBF7>", "<U+1FBF8>", "<U+1FBF9>" >> >>

DecimalDigitSet ==
    UNION { { DecimalDigits[b][i] : i \in 1..10 } : b \in DOMAIN DecimalDigits }

IsAsciiDigit(c) == c \in { "0", "1", "2", "3", "4", "5", "6", "7", "8", "9" }

IsDigit(c) == IsAsciiDigit(c) \/ c \in DecimalDigitSet

\* the value of a decimal digit: its column in DecimalDigits
DigitColumn(c) ==
    CHOOSE i \in 1..10 : \E b \in DOMAIN DecimalDigits : DecimalDigits[b][i] = c

\* the value of an ASCII digit
AsciiVal(c) ==
    CASE c = "0" -> 0 [] c = "1" -> 1 [] c = "2" -> 2 [] c = "3" -> 3
      [] c = "4" -> 4 [] c = "5" -> 5 [] c = "6" -> 6 [] c = "7" -> 7
      [] c = "8" -> 8 [] c = "9" -> 9

\* the number a string of ASCII digits reads as
RECURSIVE Number(_)
Number(s) ==
    IF s = << >> THEN 0
    ELSE 10 * Number(SubSeq(s, 1, Len(s) - 1)) + AsciiVal(s[Len(s)])

DigitVal(c) == DigitColumn(c) - 1

DigitChar(n) ==
    CASE n = 0 -> "0" [] n = 1 -> "1" [] n = 2 -> "2" [] n = 3 -> "3"
      [] n = 4 -> "4" [] n = 5 -> "5" [] n = 6 -> "6" [] n = 7 -> "7"
      [] n = 8 -> "8" [] n = 9 -> "9"

\* int(s) for a string of decimal digits
RECURSIVE PyInt(_)
PyInt(s) ==
    IF s = << >> THEN 0
    ELSE 10 * PyInt(SubSeq(s, 1, Len(s) - 1)) + DigitVal(s[Len(s)])

\* str(n).zfill(2) and the %Y / %m / %d fields of strftime and isoformat
Pad2(n) == << DigitChar(n \div 10), DigitChar(n % 10) >>
Pad4(n) == << DigitChar(n \div 1000), DigitChar((n \div 100) % 10),
              DigitChar((n \div 10) % 10), DigitChar(n % 10) >>
\* the six digits of the microsecond in isoformat
Pad6(n) == Pad2(n \div 10000) \o Pad4(n % 10000)

Str(chars) == [type |-> "str", s |-> chars]
IsStr(v) == v.type = "str"

\* -------------------------------------------------------------------------
\* Module constants of tools.py
\* -------------------------------------------------------------------------

CURRENT_YEAR == << "2", "0", "2", "5" >>
CURRENT_MONTH == << "0", "5" >>
TIMEZONE == "America/Argentina/Buenos_Aires"
WRONG_YEAR == << "2", "0", "2", "4" >>

\* int(CURRENT_YEAR), int(CURRENT_MONTH): the constants are ASCII digits
IntCurrentYear == Number(CURRENT_YEAR)
IntCurrentMonth == Number(CURRENT_MONTH)

\* -------------------------------------------------------------------------
\* ensure_correct_date
\* -------------------------------------------------------------------------

NoMatch == [matched |-> FALSE]

\* re.match(r'^(\d{4})-(\d{2})-(\d{2})(T.*)$', s): "." matches any character but
\* a newline, and "$" matches at the end of the string or just before a newline
\* that ends the string.  The groups are (year, month, day, remainder).
ReMatch(s) ==
    LET n == Len(s)
        head == /\ n >= 11
                /\ \A i \in {1, 2, 3, 4, 6, 7, 9, 10} : IsDigit(s[i])
                /\ s[5] = "-"
                /\ s[8] = "-"
                /\ s[11] = "T"
        dotEnd == IF head /\ s[n] = NL THEN n - 1 ELSE n
    IN  IF head /\ \A i \in 12..dotEnd : s[i] # NL
        THEN [matched |-> TRUE,
              year |-> SubSeq(s, 1, 4),
              month |-> SubSeq(s, 6, 7),
              day |-> SubSeq(s, 9, 10),
              remainder |-> SubSeq(s, 11, dotEnd)]
        ELSE NoMatch

\* a bug that corrects the year and forgets the month
CorrectedMonthKept(month) == month

\* the month after the correction of a wrong-year timestamp
CorrectedMonth(month) ==
    IF month # CURRENT_MONTH /\ (PyInt(month) < 5 \/ PyInt(month) > 5)
    THEN CURRENT_MONTH
    ELSE month

\* a bug that corrects the year only when the month needed no correction
\* ("elif" in place of the nested "if")
ensure_correct_date_elif(date_str) ==
    IF ~IsStr(date_str) THEN date_str
    ELSE LET m == ReMatch(date_str.s)
         IN  IF m.matched
             THEN LET coerce == m.year = WRONG_YEAR /\ m.month # CURRENT_MONTH
                      year == IF m.year = WRONG_YEAR /\ ~coerce
                              THEN CURRENT_YEAR ELSE m.year
                      month == IF coerce THEN CURRENT_MONTH ELSE m.month
                  IN  Str(year \o <<"-">> \o month \o <<"-">> \o m.day \o m.remainder)
             ELSE date_str

ensure_correct_date(date_str) ==
    IF ~IsStr(date_str) THEN date_str
    ELSE LET m == ReMatch(date_str.s)
         IN  IF m.matched
             THEN LET year == IF m.year = WRONG_YEAR THEN CURRENT_YEAR ELSE m.year
                      month == IF m.year = WRONG_YEAR
                               THEN CorrectedMonth(m.month)
                               ELSE m.month
                  IN  Str(year \o <<"-">> \o month \o <<"-">> \o m.day \o m.remainder)
             ELSE date_str

\* -------------------------------------------------------------------------
\* Inputs of the date correction
\* -------------------------------------------------------------------------

\* years, months and days in ASCII digits, and 2024, 05, 06 and 17 in the
\* digits of other scripts (Arabic-Indic, fullwidth)
Years == { WRONG_YEAR, CURRENT_YEAR, << "2", "0", "2", "3" >>,
           << "<U+0662>", "<U+0660>", "<U+0662>", "<U+0664>" >> }
Months == { << "0", "1" >>, << "0", "5" >>, << "0", "6" >>, << "1", "2" >>,
            << "<U+0660>", "<U+0665>" >>, << "<U+0660>", "<U+0666>" >> }
Days == { << "1", "7" >>, << "3", "1" >>, << "<U+FF11>", "<U+FF17>" >> }

TimeOfDay == << "T", "1", "0", ":", "0", "0", ":", "0", "0" >>
Offset == << "-", "0", "3", ":", "0", "0" >>

\* what follows YYYY-MM-DD: nothing (a date-only string), a time of day with
\* or without a UTC offset, a bare "T", a time followed by a newline, a time
\* followed by a second line, and a time followed by two newlines
Tails == { << >>, TimeOfDay, TimeOfDay \o Offset, << "T" >>,
           TimeOfDay \o Offset \o << NL >>, << "T", "1", NL, "x" >>,
           TimeOfDay \o << NL, NL >> }

IsoLike == { y \o << "-" >> \o m \o << "-" >> \o d \o t :
               y \in Years, m \in Months, d \in Days, t \in Tails }

\* strings the pattern does not match for other reasons
Unmatched == { << >>,
               << " " >> \o WRONG_YEAR \o << "-", "0", "6", "-", "1", "7" >> \o TimeOfDay,
               WRONG_YEAR \o << "-", "6", "-", "1", "7" >> \o TimeOfDay,
               << "m", "a", "y" >> }

\* a value that is not a str (ensure_correct_date returns it as it is)
NotAString == [type |-> "datetime", year |-> 2024, month |-> 6, day |-> 17,
               hour |-> 10, minute |-> 0, second |-> 0, microsecond |-> 0,
               tz |-> "none"]

DateInputs == { Str(s) : s \in IsoLike \cup Unmatched } \cup { NotAString }

None == [type |-> "None"]

VARIABLES
    cd_in,      \* the argument of ensure_correct_date
    cd_out,     \* ensure_correct_date(cd_in), or None before the call
    cd_again    \* ensure_correct_date(cd_out), or None before the call

dvars == << cd_in, cd_out, cd_again >>

\* the adapter and the backend
VARIABLES
    constructed,    \* whether GoogleCalendarTools() has been constructed
    service,        \* self.service, "None" or "built", of the toolkit that is
                    \* being constructed or whose operation is called
    store,          \* the backend's events of calendar 'primary', by id
    nextId,         \* the id the backend assigns next
    clock,          \* index of the current reading of the system clock
    upd,            \* update_event between its read and its write, or None
    last,           \* the operation that has just returned
    calls,          \* operations called so far
    external,       \* writes of other clients so far
    teamsync,       \* id of the event create_event(TeamSync) created and that
                    \* has not been deleted since, or 0
    kept            \* whether no update has been written to that event since

avars == << constructed, service, store, nextId, clock, upd, last, calls,
            external, teamsync, kept >>

\* the two input forms of one timestamp: the datetime object given, and the
\* dateTime sent for its ISO string and for the object itself
VARIABLES given, sent_str, sent_dt

fvars == << given, sent_str, sent_dt >>

\* main() of manager.py: where the loop stands, the line typed, the line
\* after strip(), the requests dispatched for it and the lines read so far
VARIABLES loop, typed, user_input, dispatched, lines

lvars == << loop, typed, user_input, dispatched, lines >>

\* the agents: whose run is in progress, who started it, the Coordinator's
\* session_state, the runs started so far, and self.service of the toolkit
\* each agent constructed for itself ("unset" before its construction)
VARIABLES caller, origin, session_state, turns, toolkits

svars == << caller, origin, session_state, turns, toolkits >>

vars == << cd_in, cd_out, cd_again, constructed, service, store, nextId, clock,
           upd, last, calls, external, teamsync, kept, given, sent_str, sent_dt,
           loop, typed, user_input, dispatched, lines, caller, origin,
           session_state, turns, toolkits >>

\* what the date correction, the operations, the input forms, the loop and
\* the agents leave alone
besideDate == << avars, fvars, lvars, svars >>
besideAdapter == << dvars, fvars, lvars, svars >>
besideForms == << dvars, avars, lvars, svars >>
besideLoop == << dvars, avars, fvars, svars >>

\* the initial values of the input forms, of the loop and of the agents
\* (session_state={"events": []})
QuietForms == given = None /\ sent_str = None /\ sent_dt = None
QuietLoop ==
    /\ loop = "start" /\ typed = None /\ user_input = None
    /\ dispatched = 0 /\ lines = 0
QuietSession ==
    /\ caller = "none" /\ origin = "none"
    /\ session_state = [events |-> << >>]
    /\ turns = 0
    /\ toolkits = [calendar_agent |-> "unset", KAI |-> "unset"]


InitDate ==
    /\ cd_in \in DateInputs
    /\ cd_out = None
    /\ cd_again = None

Correct ==
    /\ cd_out = None
    /\ cd_out' = ensure_correct_date(cd_in)
    /\ UNCHANGED << cd_in, cd_again >>
    /\ UNCHANGED besideDate

CorrectAgain ==
    /\ cd_out # None
    /\ cd_again = None
    /\ cd_again' = ensure_correct_date(cd_out)
    /\ UNCHANGED << cd_in, cd_out >>
    /\ UNCHANGED besideDate

NextDate == Correct \/ CorrectAgain

\* -------------------------------------------------------------------------
\* Date correction: properties
\* -------------------------------------------------------------------------

\* the year, month, day and the rest of a string the pattern matches
YearOf(v) == ReMatch(v.s).year
MonthOf(v) == ReMatch(v.s).month
Matches(v) == IsStr(v) /\ ReMatch(v.s).matched

\* C1: date correction is idempotent: correcting a corrected value returns it
\* unchanged, for matching strings, date-only strings, unmatched strings.
C1_Idempotent == cd_again # None => cd_again = cd_out

\* C1 witness: a wrong-year timestamp was rewritten and then corrected again
C1_Witness ==
    /\ cd_again # None
    /\ Matches(cd_in) /\ YearOf(cd_in) = WRONG_YEAR
    /\ cd_out # cd_in

\* a date-only string YYYY-MM-DD
DateOnly(v) ==
    /\ IsStr(v)
    /\ Len(v.s) = 10
    /\ \A i \in {1, 2, 3, 4, 6, 7, 9, 10} : IsDigit(v.s[i])
    /\ v.s[5] = "-" /\ v.s[8] = "-"

\* the timestamp inputs that bear the wrong year, with or without a time part
BearsWrongYear(v) ==
    \/ Matches(v) /\ YearOf(v) = WRONG_YEAR
    \/ DateOnly(v) /\ SubSeq(v.s, 1, 4) = WRONG_YEAR

\* out is "2025-05-" followed by what followed the month in v: the day, the
\* time of day and the offset (a newline that ends v is not part of them)
RewrittenToCurrent(v, out) ==
    /\ IsStr(out)
    /\ Len(out.s) \in { Len(v.s), Len(v.s) - 1 }
    /\ Len(out.s) = Len(v.s) - 1 => v.s[Len(v.s)] = NL
    /\ SubSeq(out.s, 1, 8) = CURRENT_YEAR \o << "-" >> \o CURRENT_MONTH \o << "-" >>
    /\ SubSeq(out.s, 9, Len(out.s)) = SubSeq(v.s, 9, Len(out.s))

\* C2 as claimed: for every timestamp string whose year is not 2024,
\* ensure_correct_date returns a string equal to its input.
C2_OtherYearsUnchanged ==
    (cd_out # None /\ IsStr(cd_in) /\ ~BearsWrongYear(cd_in)) => cd_out = cd_in

\* C3 as claimed: every timestamp input bearing year 2024, with or without a
\* time part, is rewritten to year 2025 and month 05 with the same day, time
\* of day and offset.
C3_EveryWrongYearRewritten ==
    (cd_out # None /\ BearsWrongYear(cd_in)) => RewrittenToCurrent(cd_in, cd_out)

\* a string that begins YYYY-MM-DDT, the date in decimal digits
Stamp(v) ==
    /\ IsStr(v)
    /\ Len(v.s) >= 11
    /\ \A i \in {1, 2, 3, 4, 6, 7, 9, 10} : IsDigit(v.s[i])
    /\ v.s[5] = "-" /\ v.s[8] = "-" /\ v.s[11] = "T"

\* the text after the "T" is on one line: it holds no newline, but for one
\* that ends the string
OneLine(v) == \A i \in 12..(Len(v.s) - 1) : v.s[i] # NL

\* the string without the newline that ends it
Chomp(chars) ==
    IF chars # << >> /\ chars[Len(chars)] = NL
    THEN SubSeq(chars, 1, Len(chars) - 1)
    ELSE chars

\* "2025-", the month 05 (or the month of v as it is written when it already
\* reads 5, in the digits of any script) and what followed the month in v,
\* without the newline that ends v
RewrittenToMayOfCurrent(v) ==
    Str(CURRENT_YEAR \o << "-" >>
          \o (IF PyInt(SubSeq(v.s, 6, 7)) = IntCurrentMonth
              THEN SubSeq(v.s, 6, 7) ELSE CURRENT_MONTH)
          \o SubSeq(Chomp(v.s), 8, Len(Chomp(v.s))))

\* C3 amended: a string YYYY-MM-DDT... whose year is written 2024 and whose
\* text after the "T" is on one line is rewritten to year 2025 and month 05
\* (a month that reads 5 in the digits of another script stays as written),
\* keeping the day, the time of day and the offset and dropping a newline
\* that ends the string; a date-only string of year 2024, and a string of
\* year 2024 with a line break inside its time part, is returned as it is.
C3_WrongYearWithTimeRewritten ==
    (cd_out # None /\ IsStr(cd_in)
       /\ Len(cd_in.s) >= 4 /\ SubSeq(cd_in.s, 1, 4) = WRONG_YEAR) =>
        /\ (Stamp(cd_in) /\ OneLine(cd_in)) => cd_out = RewrittenToMayOfCurrent(cd_in)
        /\ (Stamp(cd_in) /\ ~OneLine(cd_in)) => cd_out = cd_in
        /\ DateOnly(cd_in) => cd_out = cd_in

\* C3 witness: "2024-06-17T10:00:00-03:00" followed by a newline has been
\* corrected to "2025-05-17T10:00:00-03:00"
C3_Witness ==
    /\ cd_in = Str(WRONG_YEAR \o << "-", "0", "6", "-", "1", "7" >> \o TimeOfDay
                    \o Offset \o << NL >>)
    /\ cd_out = Str(CURRENT_YEAR \o << "-", "0", "5", "-", "1", "7" >> \o TimeOfDay \o Offset)

\* =========================================================================
\* GoogleCalendarTools
\* =========================================================================

\* -------------------------------------------------------------------------
\* datetime objects and their ISO form
\* -------------------------------------------------------------------------

\* A datetime object is [type |-> "datetime", year, month, day, hour, minute,
\* second, microsecond, tz].  tz is "none" for a naive datetime, "UTC" for
\* pytz.UTC and "BA" for pytz.timezone(TIMEZONE) passed as tzinfo to the
\* datetime constructor.

DaysInMonth(y, m) ==
    IF m = 2 THEN (IF y % 4 = 0 /\ (y % 100 # 0 \/ y % 400 = 0) THEN 29 ELSE 28)
    ELSE IF m \in {4, 6, 9, 11} THEN 30 ELSE 31

\* whether datetime(year=y, month=m, day=d, ...) is constructed (it raises
\* ValueError otherwise)
DatetimeOk(y, m, d) == m \in 1..12 /\ d \in 1..DaysInMonth(y, m)

\* the UTC offset isoformat() prints: none for a naive datetime, +00:00 for
\* pytz.UTC, and the zone's first (local mean time) offset for a pytz zone
\* given to the constructor without localize()
OffsetText(tz) ==
    CASE tz = "none" -> << >>
      [] tz = "UTC" -> << "+", "0", "0", ":", "0", "0" >>
      [] tz = "BA" -> << "-", "0", "3", ":", "5", "4" >>

\* datetime.isoformat(): the microsecond is printed when it is not 0
IsoFormat(dt) ==
    Pad4(dt.year) \o << "-" >> \o Pad2(dt.month) \o << "-" >> \o Pad2(dt.day)
      \o << "T" >> \o Pad2(dt.hour) \o << ":" >> \o Pad2(dt.minute)
      \o << ":" >> \o Pad2(dt.second)
      \o (IF dt.microsecond # 0 THEN << "." >> \o Pad6(dt.microsecond) ELSE << >>)
      \o OffsetText(dt.tz)

\* the datetime branch of create_event and update_event: the year is forced
\* to CURRENT_YEAR and the month to CURRENT_MONTH, a naive datetime gets the
\* zone TIMEZONE
ForcedDatetime(value) ==
    [type |-> "datetime",
     year |-> IntCurrentYear,
     month |-> IF value.month = IntCurrentMonth THEN value.month
               ELSE IntCurrentMonth,
     day |-> value.day,
     hour |-> value.hour,
     minute |-> value.minute,
     second |-> value.second,
     microsecond |-> value.microsecond,
     tz |-> IF value.tz # "none" THEN value.tz ELSE "BA"]

\* the dateTime string sent to the backend for a start or end argument
CorrectedArg(value) ==
    IF IsStr(value) THEN ensure_correct_date(value).s
    ELSE IsoFormat(ForcedDatetime(value))

\* {'dateTime': ..., 'timeZone': TIMEZONE}
Structured(value) == [dateTime |-> CorrectedArg(value), timeZone |-> TIMEZONE]

\* the terminal hyperlink around a link
ESC == "<ESC>"
FormatLink(link) ==
    << ESC, "]8;;" >> \o link \o << ESC, "\\" >> \o link \o << ESC, "]8;;", ESC, "\\" >>

\* -------------------------------------------------------------------------
\* The calendar backend (events().insert/list/get/update/delete on 'primary')
\* -------------------------------------------------------------------------

MaxEvents == 2          \* event ids the backend assigns in one run
MaxResults == 2         \* largest max_results passed to list_upcoming_events

EventIds == 1..MaxEvents

Missing == "<no such key>"       \* an optional key the event dict does not hold
NoLink == << Missing >>          \* the same for 'htmlLink', whose values are sequences
Absent == [type |-> "absent"]    \* no event stored under an id

\* link = event.get('htmlLink') as the f-string prints it: "None" for an
\* event without the key
GetLink(event) == IF event.htmlLink = NoLink THEN << "None" >> ELSE event.htmlLink

Fields == { "id", "summary", "start", "end", "description", "location", "htmlLink" }

HtmlLink(id) == << "https://www.google.com/calendar/event?eid=", ToString(id) >>


\* whether a dateTime ends in a +hh:mm / -hh:mm offset
HasOffset(s) == Len(s) >= 25 /\ s[Len(s) - 5] \in {"+", "-"}

\* the dateTime without its offset
LocalPart(s) == IF HasOffset(s) THEN SubSeq(s, 1, Len(s) - 6) ELSE s

\* the fraction of the second: what follows hh:mm:ss in the local part
Fraction(s) == SubSeq(LocalPart(s), 20, Len(LocalPart(s)))

\* a dateTime the backend accepts: YYYY-MM-DDThh:mm:ss with an optional
\* fraction of one to six digits and an optional +hh:mm / -hh:mm offset,
\* naming a day and a time of day that exist
BackendTime(s) ==
    /\ Len(LocalPart(s)) >= 19
    /\ \A i \in {1, 2, 3, 4, 6, 7, 9, 10, 12, 13, 15, 16, 18, 19} : IsAsciiDigit(s[i])
    /\ s[5] = "-" /\ s[8] = "-" /\ s[11] = "T" /\ s[14] = ":" /\ s[17] = ":"
    /\ DatetimeOk(Number(SubSeq(s, 1, 4)), Number(SubSeq(s, 6, 7)), Number(SubSeq(s, 9, 10)))
    /\ Number(SubSeq(s, 12, 13)) < 24
    /\ Number(SubSeq(s, 15, 16)) < 60
    /\ Number(SubSeq(s, 18, 19)) < 60
    /\ Fraction(s) # << >> =>
         /\ Len(Fraction(s)) \in 2..7
         /\ Fraction(s)[1] = "."
         /\ \A i \in 2..Len(Fraction(s)) : IsAsciiDigit(Fraction(s)[i])
    /\ HasOffset(s) =>
         /\ IsAsciiDigit(s[Len(s) - 4]) /\ IsAsciiDigit(s[Len(s) - 3])
         /\ s[Len(s) - 2] = ":"
         /\ IsAsciiDigit(s[Len(s) - 1]) /\ IsAsciiDigit(s[Len(s)])

\* days from 0000-03-01 to the civil date (proleptic Gregorian)
DayNumber(y, m, d) ==
    LET yy == IF m <= 2 THEN y - 1 ELSE y
        mm == IF m <= 2 THEN m + 9 ELSE m - 3
    IN  365 * yy + (yy \div 4) - (yy \div 100) + (yy \div 400)
          + ((153 * mm + 2) \div 5) + d - 1

\* the minute of an accepted dateTime, counted in UTC; a dateTime without
\* an offset is local time in TIMEZONE (UTC-3)
Instant(s) ==
    (DayNumber(Number(SubSeq(s, 1, 4)), Number(SubSeq(s, 6, 7)),
               Number(SubSeq(s, 9, 10))) * 24
       + Number(SubSeq(s, 12, 13))) * 60
      + Number(SubSeq(s, 15, 16))
      - (IF HasOffset(s)
         THEN (IF s[Len(s) - 5] = "-" THEN -1 ELSE 1)
                * (Number(SubSeq(s, Len(s) - 4, Len(s) - 3)) * 60
                     + Number(SubSeq(s, Len(s) - 1, Len(s))))
         ELSE -180)

\* the microseconds of an accepted dateTime within its minute
WithinMinute(s) ==
    Number(SubSeq(s, 18, 19)) * 1000000
      + Number(SubSeq(SubSeq(Fraction(s), 2, Len(Fraction(s)))
                        \o << "0", "0", "0", "0", "0", "0" >>, 1, 6))

\* the instant of s is before the instant of t
Before(s, t) ==
    \/ Instant(s) < Instant(t)
    \/ Instant(s) = Instant(t) /\ WithinMinute(s) < WithinMinute(t)

\* the outcome of a backend request: the exception it raised, or its
\* response and the store it leaves
Raised(text, st) == [raised |-> TRUE, text |-> text, store |-> st, response |-> Absent]
Returned(resp, st) == [raised |-> FALSE, text |-> "", store |-> st, response |-> resp]

BodyOk(body) == BackendTime(body.start.dateTime) /\ BackendTime(body.end.dateTime)

\* events().insert(calendarId='primary', body=body).execute(); nid is the id
\* the backend assigns
BackendInsert(st, nid, body, fault) ==
    IF fault # "none" THEN Raised(fault, st)
    ELSE IF ~BodyOk(body) THEN Raised("HttpError 400: Bad Request", st)
    ELSE LET ev == [f \in Fields |->
                      CASE f = "id" -> nid
                        [] f = "htmlLink" -> HtmlLink(nid)
                        [] OTHER -> IF f \in DOMAIN body THEN body[f] ELSE Missing]
         IN  Returned(ev, [st EXCEPT ![nid] = ev])

\* events().get(calendarId='primary', eventId=id).execute()
BackendGet(st, id, fault) ==
    IF fault # "none" THEN Raised(fault, st)
    ELSE IF id \notin DOMAIN st \/ st[id] = Absent
         THEN Raised("HttpError 404: Not Found", st)
    ELSE Returned(st[id], st)

\* events().update(calendarId='primary', eventId=id, body=body).execute():
\* the stored event is replaced by the body
BackendUpdate(st, id, body, fault) ==
    IF fault # "none" THEN Raised(fault, st)
    ELSE IF id \notin DOMAIN st \/ st[id] = Absent
         THEN Raised("HttpError 404: Not Found", st)
    ELSE IF ~BodyOk(body) THEN Raised("HttpError 400: Bad Request", st)
    ELSE Returned(body, [st EXCEPT ![id] = body])

\* events().delete(calendarId='primary', eventId=id).execute()
BackendDelete(st, id, fault) ==
    IF fault # "none" THEN Raised(fault, st)
    ELSE IF id \notin DOMAIN st \/ st[id] = Absent
         THEN Raised("HttpError 404: Not Found", st)
    ELSE Returned(Absent, [st EXCEPT ![id] = Absent])

\* the ids of the events that end after timeMin
Upcoming(st, timeMin) ==
    { i \in DOMAIN st : st[i] # Absent /\ Before(timeMin, st[i]["end"].dateTime) }

\* orderBy='startTime': i comes before j
StartsBefore(st, i, j) ==
    LET a == st[i].start.dateTime
        b == st[j].start.dateTime
    IN  Before(a, b) \/ (~Before(b, a) /\ i < j)

RECURSIVE ByStart(_, _)
ByStart(st, ids) ==
    IF ids = {} THEN << >>
    ELSE LET first == CHOOSE i \in ids : \A j \in ids \ {i} : StartsBefore(st, i, j)
         IN  << st[first] >> \o ByStart(st, ids \ {first})

Take(seq, n) == SubSeq(seq, 1, IF Len(seq) < n THEN Len(seq) ELSE n)

\* events().list(calendarId='primary', timeMin=..., maxResults=...,
\* singleEvents=True, orderBy='startTime').execute(); the backend may leave
\* the 'items' key out of a response without events
BackendList(st, timeMin, maxResults, fault, withItems) ==
    IF fault # "none" THEN Raised(fault, st)
    ELSE LET items == Take(ByStart(st, Upcoming(st, timeMin)), maxResults)
         IN  IF items = << >> /\ ~withItems
             THEN Returned([kind |-> "calendar#events"], st)
             ELSE Returned([kind |-> "calendar#events", items |-> items], st)

\* -------------------------------------------------------------------------
\* Values returned by the operations
\* -------------------------------------------------------------------------

\* a returned str: a fixed prefix followed by the pieces of the rest
StrResult(prefix, rest) == [type |-> "str", prefix |-> prefix, rest |-> rest]
ListResult(items) == [type |-> "list", items |-> items]

\* what one call of an operation did: the value it returned (None when an
\* exception left the operation), the exception that left it, the backend
\* requests it performed, the text of the exception a request raised, and
\* the store it leaves
Outcome(result, raised, requests, threw, st) ==
    [result |-> result, raised |-> raised, requests |-> requests,
     threw |-> threw, store |-> st]

\* self.service.events() with self.service = None
NoService == "'NoneType' object has no attribute 'events'"

NoArg == "<None>"                         \* an optional argument left at None
Truthy(x) == x \notin { NoArg, "" }

\* -------------------------------------------------------------------------
\* __init__ and _authenticate
\* -------------------------------------------------------------------------

\* the environment of _authenticate: whether credentials.json exists, the
\* state of the pickled token, and whether the refresh or consent succeeds
AuthEnvs == [credentials : BOOLEAN, token : {"none", "valid", "expired"}, grant : BOOLEAN]

\* _authenticate: the service it builds, or the exception it raises
Authenticate(env) ==
    IF ~env.credentials
    THEN [raised |-> TRUE, text |-> "credentials.json not found", service |-> "None"]
    ELSE IF env.token = "valid"
    THEN [raised |-> FALSE, text |-> "", service |-> "built"]
    ELSE IF env.grant
    THEN [raised |-> FALSE, text |-> "", service |-> "built"]
    ELSE [raised |-> TRUE,
          text |-> IF env.token = "expired" THEN "RefreshError" ELSE "consent failed",
          service |-> "None"]

\* __init__: the exception of _authenticate is logged, not raised
Construct(env) ==
    [service |-> Authenticate(env).service, raised |-> "none"]

\* -------------------------------------------------------------------------
\* create_event
\* -------------------------------------------------------------------------

\* a bug that sends the end as the start and the start as the end
CreateBodySwapped(summary, start_time, end_time, description, location) ==
    LET keys == {"summary", "start", "end"}
                  \cup (IF Truthy(description) THEN {"description"} ELSE {})
                  \cup (IF Truthy(location) THEN {"location"} ELSE {})
    IN  [k \in keys |->
           CASE k = "summary" -> summary
             [] k = "start" -> Structured(end_time)
             [] k = "end" -> Structured(start_time)
             [] k = "description" -> description
             [] k = "location" -> location]

\* the event dict create_event sends
CreateBody(summary, start_time, end_time, description, location) ==
    LET keys == {"summary", "start", "end"}
                  \cup (IF Truthy(description) THEN {"description"} ELSE {})
                  \cup (IF Truthy(location) THEN {"location"} ELSE {})
    IN  [k \in keys |->
           CASE k = "summary" -> summary
             [] k = "start" -> Structured(start_time)
             [] k = "end" -> Structured(end_time)
             [] k = "description" -> description
             [] k = "location" -> location]

create_event(svc, st, nid, a, fault) ==
    LET body == CreateBody(a.summary, a.start_time, a.end_time, a.description, a.location)
    IN  IF svc = "None"
        THEN Outcome(StrResult("Failed to create event: ", << NoService >>),
                     "none", << >>, NoService, st)
        ELSE LET r == BackendInsert(st, nid, body, fault)
             IN  IF r.raised
                 THEN Outcome(StrResult("Failed to create event: ", << r.text >>),
                              "none", << "insert" >>, r.text, r.store)
                 ELSE Outcome(StrResult("Event created successfully: ",
                                        FormatLink(GetLink(r.response))),
                              "none", << "insert" >>, "", r.store)

\* -------------------------------------------------------------------------
\* get_current_date
\* -------------------------------------------------------------------------

\* strftime("%A") and strftime("%B")
WeekdayName(y, m, d) ==
    LET n == (DayNumber(y, m, d) + 2) % 7
    IN  CASE n = 0 -> "Monday" [] n = 1 -> "Tuesday" [] n = 2 -> "Wednesday"
          [] n = 3 -> "Thursday" [] n = 4 -> "Friday" [] n = 5 -> "Saturday"
          [] n = 6 -> "Sunday"

MonthName(m) ==
    CASE m = 1 -> "January" [] m = 2 -> "February" [] m = 3 -> "March"
      [] m = 4 -> "April" [] m = 5 -> "May" [] m = 6 -> "June" [] m = 7 -> "July"
      [] m = 8 -> "August" [] m = 9 -> "September" [] m = 10 -> "October"
      [] m = 11 -> "November" [] m = 12 -> "December"

\* the date reported: CURRENT_YEAR and CURRENT_MONTH with the day of the
\* system clock, at midnight UTC
ForcedDate(reading) ==
    [type |-> "datetime", year |-> IntCurrentYear, month |-> IntCurrentMonth,
     day |-> reading.day, hour |-> 0, minute |-> 0, second |-> 0, microsecond |-> 0,
     tz |-> "UTC"]

\* the dict returned
DateDict(reading) ==
    LET f == ForcedDate(reading)
    IN  [type |-> "dict",
         date |-> Pad4(f.year) \o << "-" >> \o Pad2(f.month) \o << "-" >> \o Pad2(f.day),
         year |-> CURRENT_YEAR,
         month |-> CURRENT_MONTH,
         day |-> Pad2(reading.day),
         timezone |-> TIMEZONE,
         formatted |-> << WeekdayName(f.year, f.month, f.day), ", ", MonthName(f.month), " " >>
                          \o Pad2(f.day) \o << ",", " " >> \o Pad4(f.year)]

get_current_date(st, reading) ==
    IF ~DatetimeOk(IntCurrentYear, IntCurrentMonth, reading.day)
    THEN Outcome(None, "ValueError", << >>, "", st)
    ELSE Outcome(DateDict(reading), "none", << >>, "", st)

\* -------------------------------------------------------------------------
\* list_upcoming_events
\* -------------------------------------------------------------------------

\* the lower time bound: the system clock with the year forced to
\* CURRENT_YEAR, labelled UTC
ForcedNow(reading) ==
    [type |-> "datetime", year |-> IntCurrentYear, month |-> reading.month,
     day |-> reading.day, hour |-> reading.hour, minute |-> reading.minute,
     second |-> reading.second, microsecond |-> reading.microsecond,
     tz |-> "UTC"]

\* the events as returned: in every event that holds the key 'htmlLink'
\* (with an empty link too) the link is replaced by the terminal hyperlink
Decorated(events) ==
    [i \in 1..Len(events) |->
       IF events[i].htmlLink # NoLink
       THEN [events[i] EXCEPT !.htmlLink = FormatLink(events[i].htmlLink)]
       ELSE events[i]]

\* a bug that returns the empty list as it is
ListedOrEmpty(events) == ListResult(Decorated(events))

\* the value returned for the events of the response
Listed(events) ==
    IF events = << >> THEN StrResult("No upcoming events found.", << >>)
    ELSE ListResult(Decorated(events))

list_upcoming_events(svc, st, reading, max_results, fault, withItems) ==
    IF ~DatetimeOk(IntCurrentYear, reading.month, reading.day)
    THEN Outcome(None, "ValueError", << >>, "", st)
    ELSE IF svc = "None"
    THEN Outcome(StrResult("Failed to retrieve events: ", << NoService >>),
                 "none", << >>, NoService, st)
    ELSE LET r == BackendList(st, IsoFormat(ForcedNow(reading)), max_results, fault, withItems)
         IN  IF r.raised
             THEN Outcome(StrResult("Failed to retrieve events: ", << r.text >>),
                          "none", << "list" >>, r.text, r.store)
             ELSE Outcome(Listed(IF "items" \in DOMAIN r.response
                                 THEN r.response.items ELSE << >>),
                          "none", << "list" >>, "", r.store)

\* -------------------------------------------------------------------------
\* update_event: the read, the overlay, the write
\* -------------------------------------------------------------------------

\* a bug that builds the body from the updates alone
OverlayOnly(event, updates) ==
    [f \in Fields |->
       IF f \in DOMAIN updates
       THEN (IF f \in {"start", "end"} THEN Structured(updates[f]) ELSE updates[f])
       ELSE IF f \in {"id", "htmlLink", "start", "end"} THEN event[f] ELSE Missing]

\* event[key] = value for every key of updates; start and end are reshaped
Overlay(event, updates) ==
    [f \in Fields |->
       IF f \in DOMAIN updates
       THEN (IF f \in {"start", "end"} THEN Structured(updates[f]) ELSE updates[f])
       ELSE event[f]]

\* the first half of update_event: events().get and the overlay
update_event_get(svc, st, id, updates, fault) ==
    IF svc = "None"
    THEN Outcome(StrResult("Failed to update event: ", << NoService >>),
                 "none", << >>, NoService, st)
    ELSE LET r == BackendGet(st, id, fault)
         IN  IF r.raised
             THEN Outcome(StrResult("Failed to update event: ", << r.text >>),
                          "none", << "get" >>, r.text, r.store)
             ELSE Outcome(None, "none", << "get" >>, "", r.store)

\* a bug that writes the overlay over the event as stored at the write
WriteBodyMerged(fetched, stored, updates) ==
    IF stored = Absent THEN Overlay(fetched, updates) ELSE Overlay(stored, updates)

\* the body update_event writes: the overlay over the event it read
WriteBody(fetched, stored, updates) == Overlay(fetched, updates)

\* a bug that leaves events().update outside the try
update_event_put_unguarded(st, id, fetched, updates, fault) ==
    LET r == BackendUpdate(st, id, WriteBody(fetched, st[id], updates), fault)
    IN  IF r.raised
        THEN Outcome(None, "HttpError", << "get", "update" >>, r.text, r.store)
        ELSE Outcome(StrResult("Event updated successfully: ",
                               FormatLink(GetLink(r.response))),
                     "none", << "get", "update" >>, "", r.store)

\* the second half of update_event: events().update
update_event_put(st, id, fetched, updates, fault) ==
    LET r == BackendUpdate(st, id, WriteBody(fetched, st[id], updates), fault)
    IN  IF r.raised
        THEN Outcome(StrResult("Failed to update event: ", << r.text >>),
                     "none", << "get", "update" >>, r.text, r.store)
        ELSE Outcome(StrResult("Event updated successfully: ",
                               FormatLink(GetLink(r.response))),
                     "none", << "get", "update" >>, "", r.store)

\* -------------------------------------------------------------------------
\* delete_event
\* -------------------------------------------------------------------------

\* a bug that reports the delete of an event that is not there as done
delete_event_lenient(svc, st, id, fault) ==
    IF svc = "None"
    THEN Outcome(StrResult("Failed to delete event: ", << NoService >>),
                 "none", << >>, NoService, st)
    ELSE LET r == BackendDelete(st, id, fault)
         IN  IF r.raised /\ r.text # "HttpError 404: Not Found"
             THEN Outcome(StrResult("Failed to delete event: ", << r.text >>),
                          "none", << "delete" >>, r.text, r.store)
             ELSE Outcome(StrResult("Event deleted successfully", << >>),
                          "none", << "delete" >>, "", r.store)

delete_event(svc, st, id, fault) ==
    IF svc = "None"
    THEN Outcome(StrResult("Failed to delete event: ", << NoService >>),
                 "none", << >>, NoService, st)
    ELSE LET r == BackendDelete(st, id, fault)
         IN  IF r.raised
             THEN Outcome(StrResult("Failed to delete event: ", << r.text >>),
                          "none", << "delete" >>, r.text, r.store)
             ELSE Outcome(StrResult("Event deleted successfully", << >>),
                          "none", << "delete" >>, "", r.store)

\* -------------------------------------------------------------------------
\* Arguments and clock readings
\* -------------------------------------------------------------------------

MaxCalls == 2           \* operations called on the adapter in one run
MaxExternal == 1        \* writes of other clients of the calendar in one run

\* datetime(y, m, d, h, mi, sec, us, tzinfo=tz)
Datetime(y, m, d, h, mi, sec, us, tz) ==
    [type |-> "datetime", year |-> y, month |-> m, day |-> d, hour |-> h,
     minute |-> mi, second |-> sec, microsecond |-> us, tz |-> tz]

\* "YYYY-MM-DDThh:00:00"
Naive(y, m, d, h) == IsoFormat(Datetime(y, m, d, h, 0, 0, 0, "none"))

TeamSync ==
    [summary |-> "Team sync",
     start_time |-> Str(Naive(2025, 5, 10, 10)),
     end_time |-> Str(Naive(2025, 5, 10, 11)),
     description |-> NoArg, location |-> NoArg]

CreateArgs ==
    { TeamSync,
      [summary |-> "Standup",
       start_time |-> Str(Naive(2024, 6, 17, 10) \o Offset),
       end_time |-> Str(Naive(2024, 6, 17, 11) \o Offset),
       description |-> "notes", location |-> "room"],
      [summary |-> "Standup",
       start_time |-> Datetime(2025, 5, 9, 10, 30, 15, 250000, "none"),
       end_time |-> Datetime(2025, 5, 9, 11, 0, 0, 0, "none"),
       description |-> NoArg, location |-> "room"],
      [summary |-> "Team sync",
       start_time |-> Str(SubSeq(Naive(2025, 5, 10, 10), 1, 10)),
       end_time |-> Str(SubSeq(Naive(2025, 5, 10, 11), 1, 10)),
       description |-> NoArg, location |-> NoArg] }

UpdateArgs ==
    { [summary |-> "Renamed"],
      [location |-> "room B"],
      [start |-> Str(Naive(2024, 6, 17, 10) \o Offset),
       end |-> Str(Naive(2024, 6, 17, 11) \o Offset)],
      [end |-> Datetime(2024, 6, 17, 12, 0, 0, 1, "UTC")],
      [start |-> Str(SubSeq(Naive(2025, 5, 10, 10), 1, 10))] }

\* the exception a backend request may raise whatever its arguments
Faults == { "none", "HttpError 503: Service Unavailable" }

\* readings of the system clock, in order
ClockReadings ==
    << [year |-> 2024, month |-> 2, day |-> 29, hour |-> 10,
        minute |-> 0, second |-> 0, microsecond |-> 0],
       [year |-> 2024, month |-> 5, day |-> 9, hour |-> 9,
        minute |-> 30, second |-> 0, microsecond |-> 0],
       [year |-> 2024, month |-> 6, day |-> 17, hour |-> 10,
        minute |-> 23, second |-> 45, microsecond |-> 123456],
       [year |-> 2024, month |-> 12, day |-> 31, hour |-> 23,
        minute |-> 59, second |-> 59, microsecond |-> 999999] >>

\* an event another client stored before the run
Preexisting(id) ==
    [f \in Fields |->
       CASE f = "id" -> id
         [] f = "summary" -> "Lunch"
         [] f = "start" -> [dateTime |-> Naive(2025, 5, 9, 12) \o Offset, timeZone |-> TIMEZONE]
         [] f = "end" -> [dateTime |-> Naive(2025, 5, 9, 13) \o Offset, timeZone |-> TIMEZONE]
         [] f = "description" -> Missing
         [] f = "location" -> "canteen"
         [] f = "htmlLink" -> HtmlLink(id)]

\* the same event in a response that does not hold the key 'htmlLink'
Unlinked(id) == [Preexisting(id) EXCEPT !.htmlLink = NoLink]

\* -------------------------------------------------------------------------
\* State
\* -------------------------------------------------------------------------

\* the record of the operation that has just returned
\* (arg is its event id or max_results argument, 0 without one)
Last(op, o, arg, fetched, updates, before) ==
    [op |-> op, result |-> o.result, raised |-> o.raised, requests |-> o.requests,
     threw |-> o.threw, arg |-> arg, fetched |-> fetched, updates |-> updates,
     before |-> before]

Nothing == Outcome(None, "none", << >>, "", << >>)

EmptyStore == [i \in EventIds |-> Absent]

Init ==
    /\ cd_in = None /\ cd_out = None /\ cd_again = None
    /\ constructed = FALSE
    /\ service = "None"
    /\ \/ store = EmptyStore /\ nextId = 1
       \/ store = [EmptyStore EXCEPT ![1] = Preexisting(1)] /\ nextId = 2
       \/ store = [EmptyStore EXCEPT ![1] = Unlinked(1)] /\ nextId = 2
    /\ clock \in 1..Len(ClockReadings)
    /\ upd = None
    /\ last = Last("none", Nothing, 0, None, None, None)
    /\ calls = 0
    /\ external = 0
    /\ teamsync = 0
    /\ kept = TRUE
    /\ QuietForms /\ QuietLoop /\ QuietSession

\* -------------------------------------------------------------------------
\* Actions
\* -------------------------------------------------------------------------

\* the adapter is constructed, no update_event is between its read and its
\* write, and fewer than n operations have been called
Ready(n) == constructed /\ upd = None /\ calls < n

Idle == Ready(MaxCalls)

\* GoogleCalendarTools()
DoConstruct ==
    /\ ~constructed
    /\ \E env \in AuthEnvs :
         LET c == Construct(env)
         IN  /\ service' = c.service
             /\ last' = Last("__init__", Outcome(None, c.raised, << >>, "", << >>),
                             0, None, None, None)
    /\ constructed' = TRUE
    /\ UNCHANGED << store, nextId, clock, upd, calls, external, teamsync, kept >>
    /\ UNCHANGED besideAdapter

\* create_event with arguments of A, the backend raising a fault of F
Create(n, A, F) ==
    /\ Ready(n)
    /\ nextId <= MaxEvents
    /\ \E a \in A, fault \in F :
         LET o == create_event(service, store, nextId, a, fault)
             created == o.store # store
         IN  /\ store' = o.store
             /\ nextId' = IF created THEN nextId + 1 ELSE nextId
             /\ teamsync' = IF created /\ a = TeamSync THEN nextId ELSE teamsync
             /\ kept' = IF created /\ a = TeamSync THEN TRUE ELSE kept
             /\ last' = Last("create_event", o, IF created THEN nextId ELSE 0,
                             None, None, None)
    /\ calls' = calls + 1
    /\ UNCHANGED << constructed, service, clock, upd, external >>
    /\ UNCHANGED besideAdapter

DoCreate == Create(MaxCalls, CreateArgs, Faults)

\* list_upcoming_events, the backend raising a fault of F
List(n, F) ==
    /\ Ready(n)
    /\ \E max_results \in 1..MaxResults, fault \in F, withItems \in BOOLEAN :
         LET o == list_upcoming_events(service, store, ClockReadings[clock],
                                       max_results, fault, withItems)
         IN  last' = Last("list_upcoming_events", o, max_results, None, None, None)
    /\ calls' = calls + 1
    /\ UNCHANGED << constructed, service, store, nextId, clock, upd, external, teamsync, kept >>
    /\ UNCHANGED besideAdapter

DoList == List(MaxCalls, Faults)

DoGetCurrentDate ==
    /\ Idle
    /\ LET o == get_current_date(store, ClockReadings[clock])
       IN  last' = Last("get_current_date", o, 0, None, None, None)
    /\ calls' = calls + 1
    /\ UNCHANGED << constructed, service, store, nextId, clock, upd, external, teamsync, kept >>
    /\ UNCHANGED besideAdapter

\* update_event up to the response of events().get and the overlay, with
\* updates of U, the backend raising a fault of F
UpdateGet(n, U, F) ==
    /\ Ready(n)
    /\ \E id \in EventIds, updates \in U, fault \in F :
         LET o == update_event_get(service, store, id, updates, fault)
         IN  IF o.result = None
             THEN /\ upd' = [type |-> "update", id |-> id, fetched |-> store[id],
                             updates |-> updates]
                  /\ last' = Last("update_event:get", o, id, store[id], updates, None)
             ELSE /\ upd' = None
                  /\ last' = Last("update_event", o, id, None, updates, None)
    /\ calls' = calls + 1
    /\ UNCHANGED << constructed, service, store, nextId, clock, external, teamsync, kept >>
    /\ UNCHANGED besideAdapter

DoUpdateGet == UpdateGet(MaxCalls, UpdateArgs, Faults)

\* update_event from events().update to its return, the backend raising a
\* fault of F
UpdatePut(F) ==
    /\ upd # None
    /\ \E fault \in F :
         LET o == update_event_put(store, upd.id, upd.fetched, upd.updates, fault)
         IN  /\ store' = o.store
             /\ kept' = IF o.store # store /\ upd.id = teamsync THEN FALSE ELSE kept
             /\ last' = Last("update_event", o, upd.id, upd.fetched, upd.updates,
                             store[upd.id])
    /\ upd' = None
    /\ UNCHANGED << constructed, service, nextId, clock, calls, external, teamsync >>
    /\ UNCHANGED besideAdapter

DoUpdatePut == UpdatePut(Faults)

\* delete_event, the backend raising a fault of F
Delete(n, F) ==
    /\ Ready(n)
    /\ \E id \in EventIds, fault \in F :
         LET o == delete_event(service, store, id, fault)
         IN  /\ store' = o.store
             /\ teamsync' = IF o.store # store /\ id = teamsync THEN 0 ELSE teamsync
             /\ last' = Last("delete_event", o, id, None, None, store)
    /\ calls' = calls + 1
    /\ UNCHANGED << constructed, service, nextId, clock, upd, external, kept >>
    /\ UNCHANGED besideAdapter

DoDelete == Delete(MaxCalls, Faults)

\* another client of the calendar renames an event
ExternalModify ==
    /\ external < MaxExternal
    /\ \E id \in EventIds :
         /\ store[id] # Absent
         /\ store' = [store EXCEPT ![id].summary = "renamed by another client"]
         /\ kept' = IF id = teamsync THEN FALSE ELSE kept
         /\ last' = Last("external", Nothing, id, None, None, None)
    /\ external' = external + 1
    /\ UNCHANGED << constructed, service, nextId, clock, upd, calls, teamsync >>
    /\ UNCHANGED besideAdapter

\* another client of the calendar deletes an event
ExternalDelete ==
    /\ external < MaxExternal
    /\ \E id \in EventIds :
         /\ store[id] # Absent
         /\ store' = [store EXCEPT ![id] = Absent]
         /\ teamsync' = IF id = teamsync THEN 0 ELSE teamsync
         /\ last' = Last("external", Nothing, id, None, None, None)
    /\ external' = external + 1
    /\ UNCHANGED << constructed, service, nextId, clock, upd, calls, kept >>
    /\ UNCHANGED besideAdapter

\* the system clock moves on
Tick ==
    /\ clock < Len(ClockReadings)
    /\ clock' = clock + 1
    /\ last' = Last("tick", Nothing, 0, None, None, None)
    /\ UNCHANGED << constructed, service, store, nextId, upd, calls, external, teamsync, kept >>
    /\ UNCHANGED besideAdapter

Next ==
    \/ DoConstruct
    \/ DoCreate
    \/ DoList
    \/ DoGetCurrentDate
    \/ DoUpdateGet
    \/ DoUpdatePut
    \/ DoDelete
    \/ ExternalModify
    \/ ExternalDelete
    \/ Tick

Spec == Init /\ [][Next]_vars

\* -------------------------------------------------------------------------
\* A create followed by other operations and a list, on a working backend
\* -------------------------------------------------------------------------

MaxSteps == 3           \* operations called on the adapter in one such run

\* a working backend raises no fault of its own
Working == { "none" }

\* the arguments of create_event and update_event in these runs
EndToEndCreates == { a \in CreateArgs : IsStr(a.start_time) /\ Len(a.start_time.s) > 10 }
EndToEndUpdates == { u \in UpdateArgs : DOMAIN u \in { {"summary"}, {"start", "end"} } }

\* the adapter has been constructed with credentials that are valid; the
\* clock stands before or after the start of the event to be created
InitEndToEnd ==
    /\ cd_in = None /\ cd_out = None /\ cd_again = None
    /\ constructed = TRUE
    /\ service = Construct([credentials |-> TRUE, token |-> "valid", grant |-> TRUE]).service
    /\ \/ store = EmptyStore /\ nextId = 1
       \/ store = [EmptyStore EXCEPT ![1] = Preexisting(1)] /\ nextId = 2
    /\ clock \in { 2, 3 }
    /\ upd = None
    /\ last = Last("__init__", Outcome(None, "none", << >>, "", << >>), 0, None, None, None)
    /\ calls = 0
    /\ external = 0
    /\ teamsync = 0
    /\ kept = TRUE
    /\ QuietForms /\ QuietLoop /\ QuietSession

EndToEndCreate == Create(MaxSteps, EndToEndCreates, Working)
EndToEndList == List(MaxSteps, Working)
EndToEndUpdateGet == UpdateGet(MaxSteps, EndToEndUpdates, Working)
EndToEndUpdatePut == UpdatePut(Working)
EndToEndDelete == Delete(MaxSteps, Working)

NextEndToEnd ==
    \/ EndToEndCreate
    \/ EndToEndList
    \/ EndToEndUpdateGet
    \/ EndToEndUpdatePut
    \/ EndToEndDelete
    \/ ExternalModify
    \/ ExternalDelete

SpecEndToEnd == InitEndToEnd /\ [][NextEndToEnd]_vars

\* the date correction alone, applied to every input
InitDateOnly ==
    /\ InitDate
    /\ constructed = FALSE /\ service = "None"
    /\ store = EmptyStore /\ nextId = 1 /\ clock = 1 /\ upd = None
    /\ last = Last("none", Nothing, 0, None, None, None)
    /\ calls = 0 /\ external = 0 /\ teamsync = 0 /\ kept = TRUE
    /\ QuietForms /\ QuietLoop /\ QuietSession

SpecDate == InitDateOnly /\ [][NextDate]_vars

\* -------------------------------------------------------------------------
\* The operations: properties
\* -------------------------------------------------------------------------

Operations == { "create_event", "list_upcoming_events", "update_event", "delete_event" }

FailurePrefix(op) ==
    CASE op = "create_event" -> "Failed to create event: "
      [] op = "list_upcoming_events" -> "Failed to retrieve events: "
      [] op = "update_event" -> "Failed to update event: "
      [] op = "delete_event" -> "Failed to delete event: "

IsFailure(op, r) == r.type = "str" /\ r.prefix = FailurePrefix(op)

UpdateSucceeded ==
    /\ last.op = "update_event"
    /\ last.result.type = "str"
    /\ last.result.prefix = "Event updated successfully: "

\* the time of day of a datetime or a clock reading, as hh:mm:ss[.ffffff]
TimeText(v) ==
    Pad2(v.hour) \o << ":" >> \o Pad2(v.minute) \o << ":" >> \o Pad2(v.second)
      \o (IF v.microsecond = 0 THEN << >> ELSE << "." >> \o Pad6(v.microsecond))

\* the structured start or end the backend holds for an argument: a string is
\* held as ensure_correct_date returns it, a datetime as its ISO form in the
\* anchored year and month
HoldsTime(stored, value) ==
    /\ stored.timeZone = TIMEZONE
    /\ IF IsStr(value) THEN stored.dateTime = ensure_correct_date(value).s
       ELSE /\ SubSeq(stored.dateTime, 1, 8)
                 = CURRENT_YEAR \o << "-" >> \o CURRENT_MONTH \o << "-" >>
            /\ SubSeq(stored.dateTime, 9, 11 + Len(TimeText(value)))
                 = Pad2(value.day) \o << "T" >> \o TimeText(value)

\* C4: after a successful update_event(id, updates) every field that updates
\* does not name has the value it had when the event was fetched, and every
\* named field has the supplied value (start and end in structured form, with
\* the corrected timestamp).
C4_UpdateChangesOnlyNamed ==
    UpdateSucceeded =>
        \A f \in Fields :
            IF f \in DOMAIN last.updates
            THEN IF f \in {"start", "end"}
                 THEN HoldsTime(store[last.arg][f], last.updates[f])
                 ELSE store[last.arg][f] = last.updates[f]
            ELSE store[last.arg][f] = last.fetched[f]

\* C4 witness: an update of the location alone succeeded on an event with a title
C4_Witness ==
    /\ UpdateSucceeded
    /\ DOMAIN last.updates = {"location"}
    /\ last.fetched.summary = "Lunch"
    /\ last.fetched.location # store[last.arg].location

\* the lower time bound list_upcoming_events has just sent
TimeMin == IsoFormat(ForcedNow(ClockReadings[clock]))

EmptySentinel == StrResult("No upcoming events found.", << >>)

\* C5: list_upcoming_events never returns an empty sequence: a list it returns
\* has at least one event, and when the backend returns no event the result
\* is the sentinel "No upcoming events found.".
C5_NeverEmptyList ==
    last.op = "list_upcoming_events" =>
        /\ last.result.type = "list" => Len(last.result.items) >= 1
        /\ (last.requests = << "list" >> /\ last.threw = "" /\ Upcoming(store, TimeMin) = {})
             => last.result = EmptySentinel

\* C5 witness: the backend answered a list request with no event
C5_Witness ==
    /\ last.op = "list_upcoming_events"
    /\ last.requests = << "list" >>
    /\ last.threw = ""
    /\ Upcoming(store, TimeMin) = {}
    /\ last.result = EmptySentinel

DeleteSuccess == StrResult("Event deleted successfully", << >>)

\* C6: delete_event on an id the backend does not hold (a second delete
\* included) returns a string starting with "Failed to delete event:", not the
\* success sentinel, and leaves the stored events as they were.
C6_DeleteMissingFails ==
    (last.op = "delete_event" /\ last.before[last.arg] = Absent) =>
        /\ IsFailure("delete_event", last.result)
        /\ last.result # DeleteSuccess
        /\ store = last.before

\* C6 witness: the delete request was sent for an id that was assigned and is
\* no longer stored
C6_Witness ==
    /\ last.op = "delete_event"
    /\ last.arg < nextId
    /\ last.before[last.arg] = Absent
    /\ last.requests = << "delete" >>
    /\ last.threw = "HttpError 404: Not Found"

\* C7: an exception raised by a backend request of create_event,
\* list_upcoming_events, update_event or delete_event does not leave the
\* operation: the operation returns its failure string carrying the
\* exception text, never a success result.
C7_BackendErrorsBecomeText ==
    (last.op \in Operations /\ last.requests # << >> /\ last.threw # "") =>
        /\ last.raised = "none"
        /\ IsFailure(last.op, last.result)
        /\ last.result.rest = << last.threw >>

\* C7 witness: the write request of update_event raised
C7_Witness ==
    /\ last.op = "update_event"
    /\ last.requests = << "get", "update" >>
    /\ last.threw = "HttpError 503: Service Unavailable"
    /\ IsFailure("update_event", last.result)

\* the listed events hold the event create_event(TeamSync) created
ListsTeamSync ==
    /\ last.result.type = "list"
    /\ \E i \in 1..Len(last.result.items) :
         /\ last.result.items[i].summary = "Team sync"
         /\ last.result.items[i].start.dateTime = TeamSync.start_time.s
         /\ last.result.items[i]["end"].dateTime = TeamSync.end_time.s

\* a list request was answered, with a lower bound before the start of the
\* event create_event(TeamSync) created, which has not been deleted since
ListedAfterTeamSync ==
    /\ last.op = "list_upcoming_events"
    /\ last.raised = "none"
    /\ last.requests = << "list" >>
    /\ last.threw = ""
    /\ teamsync # 0
    /\ Before(TimeMin, TeamSync.start_time.s)

\* create_event(TeamSync) has just stored its event
CreatedTeamSync ==
    /\ last.op = "create_event"
    /\ last.arg # 0
    /\ last.arg = teamsync

\* the value returned is the success string around the link of the event
\* stored under the id
ReturnsLinkOf(id) ==
    /\ store[id].htmlLink # NoLink
    /\ last.result = StrResult("Event created successfully: ",
                               FormatLink(store[id].htmlLink))

\* C8 as claimed: create_event("Team sync", "2025-05-10T10:00:00",
\* "2025-05-10T11:00:00") that succeeded returns the success string holding
\* the event's link, and a later list_upcoming_events with a lower bound
\* before the event's start returns a sequence holding an event with that
\* title and those timestamps, unless the event was deleted in between.
C8_ListShowsCreated ==
    /\ CreatedTeamSync => ReturnsLinkOf(teamsync)
    /\ ListedAfterTeamSync => ListsTeamSync

\* the other upcoming events that start no later than the created event
AheadOfTeamSync ==
    { j \in Upcoming(store, TimeMin) \ {teamsync} :
        ~Before(store[teamsync].start.dateTime, store[j].start.dateTime) }

\* C8 amended: create_event("Team sync", ...) that succeeded returns the
\* success string holding the event's link, and the later list holds the
\* event if, besides not being deleted, the event was not updated in between
\* (by update_event or another client) and fewer than max_results other
\* upcoming events start at or before it.
C8_ListShowsCreatedWithinCap ==
    /\ CreatedTeamSync => ReturnsLinkOf(teamsync)
    /\ (ListedAfterTeamSync /\ kept /\ Cardinality(AheadOfTeamSync) < last.arg)
          => ListsTeamSync

\* C8 witness: the created event is listed after another, earlier event,
\* an operation having been called between the create and the list
C8_Witness ==
    /\ ListedAfterTeamSync
    /\ ListsTeamSync
    /\ Len(last.result.items) = 2
    /\ calls >= 3

\* C9: when another client modifies the event between the read and the write
\* of update_event, the modification is lost: the stored event is the copy
\* read plus the overlay, and update_event returns its success result.
C9_ExternalWriteLost ==
    (/\ last.op = "update_event"
     /\ last.requests = << "get", "update" >>
     /\ last.threw = ""
     /\ last.before # Absent
     /\ last.before # last.fetched) =>
        /\ UpdateSucceeded
        /\ \A f \in Fields \ DOMAIN last.updates :
             /\ store[last.arg][f] = last.fetched[f]
             /\ last.before[f] # last.fetched[f] => store[last.arg][f] # last.before[f]

\* C9 witness: a title another client wrote between the read and the write
\* is gone after a successful update of the location
C9_Witness ==
    /\ UpdateSucceeded
    /\ DOMAIN last.updates = {"location"}
    /\ last.before # Absent
    /\ last.before.summary = "renamed by another client"
    /\ store[last.arg].summary = last.fetched.summary
    /\ store[last.arg].summary # "renamed by another client"

\* C10 as claimed: when authentication failed, the construction does not
\* raise and every later create_event, list_upcoming_events, update_event and
\* delete_event returns its failure string, performs no backend request and
\* does not raise.
C10_DegradedReturnsFailure ==
    (constructed /\ service = "None") =>
        /\ last.op = "__init__" => last.raised = "none"
        /\ last.op \in Operations =>
             /\ last.raised = "none"
             /\ last.requests = << >>
             /\ IsFailure(last.op, last.result)

\* =========================================================================
\* The agents: KAI (src/kai/manager.py) and CalendarAgent
\* (src/agents/calendar_agent/agent.py)
\* =========================================================================

\* the functions GoogleCalendarTools registers as tools
AdapterTools ==
    { "create_event", "list_upcoming_events", "update_event", "delete_event",
      "get_current_date" }

\* tools=[GoogleCalendarTools()] of KAI, the Coordinator: what its model can call
KaiTools == AdapterTools

\* tools=[GoogleCalendarTools()] of CalendarAgent, the Delegate
DelegateTools == AdapterTools

\* the entry of the Delegate
Delegation == "process_calendar_request"

MaxTurns == 2           \* runs of an agent started in one process

\* the model of the agent whose run is in progress can call the tool t
Callable(t) ==
    \/ caller = "Coordinator" /\ t \in KaiTools
    \/ caller = "Delegate" /\ t \in DelegateTools

\* the module manager.py has been imported: both agents exist
Imported == toolkits.calendar_agent # "unset" /\ toolkits.KAI # "unset"

\* calendar_agent = CalendarAgent(): the Delegate constructs its own
\* GoogleCalendarTools, which authenticates
ConstructDelegate ==
    /\ toolkits.calendar_agent = "unset"
    /\ \E env \in AuthEnvs :
         LET c == Construct(env)
         IN  /\ service' = c.service
             /\ toolkits' = [toolkits EXCEPT !.calendar_agent = c.service]
             /\ last' = Last("__init__", Outcome(None, c.raised, << >>, "", << >>),
                             0, None, None, None)
    /\ constructed' = TRUE
    /\ UNCHANGED << caller, origin, session_state, turns >>
    /\ UNCHANGED << store, nextId, clock, upd, calls, external, teamsync, kept >>
    /\ UNCHANGED << dvars, fvars, lvars >>

\* KAI = Agent(..., tools=[GoogleCalendarTools()], ...): the Coordinator
\* constructs a second GoogleCalendarTools, which authenticates again
ConstructKai ==
    /\ toolkits.calendar_agent # "unset"
    /\ toolkits.KAI = "unset"
    /\ \E env \in AuthEnvs :
         LET c == Construct(env)
         IN  /\ service' = c.service
             /\ toolkits' = [toolkits EXCEPT !.KAI = c.service]
             /\ last' = Last("__init__", Outcome(None, c.raised, << >>, "", << >>),
                             0, None, None, None)
    /\ UNCHANGED << caller, origin, session_state, turns >>
    /\ UNCHANGED << constructed, store, nextId, clock, upd, calls, external,
                    teamsync, kept >>
    /\ UNCHANGED << dvars, fvars, lvars >>

\* KAI.print_response(user_input, stream=True) is called by main(): the
\* operations its model calls are those of KAI's toolkit
KaiRun ==
    /\ Imported
    /\ caller = "none"
    /\ turns < MaxTurns
    /\ caller' = "Coordinator"
    /\ origin' = "Coordinator"
    /\ turns' = turns + 1
    /\ service' = toolkits.KAI
    /\ last' = Last("print_response", Nothing, 0, None, None, None)
    /\ UNCHANGED << session_state, toolkits >>
    /\ UNCHANGED << constructed, store, nextId, clock, upd, calls, external,
                    teamsync, kept >>
    /\ UNCHANGED << dvars, fvars, lvars >>

\* CalendarAgent.process_calendar_request(request) is called: by the
\* Coordinator's model if it is one of its tools, or by a program that
\* imports calendar_agent; the operations its model calls are those of the
\* Delegate's toolkit
ProcessCalendarRequest ==
    /\ Imported
    /\ \/ caller = "Coordinator" /\ Delegation \in KaiTools
          /\ UNCHANGED << origin, turns >>
       \/ caller = "none" /\ turns < MaxTurns
          /\ origin' = "importer"
          /\ turns' = turns + 1
    /\ caller' = "Delegate"
    /\ service' = toolkits.calendar_agent
    /\ last' = Last("process_calendar_request", Nothing, 0, None, None, None)
    /\ UNCHANGED << session_state, toolkits >>
    /\ UNCHANGED << constructed, store, nextId, clock, upd, calls, external,
                    teamsync, kept >>
    /\ UNCHANGED << dvars, fvars, lvars >>

\* the run in progress returns: to the Coordinator if it delegated, to the
\* program otherwise
EndRun ==
    /\ caller # "none"
    /\ upd = None
    /\ IF caller = "Delegate" /\ origin = "Coordinator"
       THEN caller' = "Coordinator" /\ service' = toolkits.KAI /\ UNCHANGED origin
       ELSE caller' = "none" /\ origin' = "none" /\ UNCHANGED service
    /\ last' = Last("return", Nothing, 0, None, None, None)
    /\ UNCHANGED << session_state, turns, toolkits >>
    /\ UNCHANGED << constructed, store, nextId, clock, upd, calls, external,
                    teamsync, kept >>
    /\ UNCHANGED << dvars, fvars, lvars >>

\* the tool calls of the run in progress
RunGetCurrentDate == Callable("get_current_date") /\ DoGetCurrentDate
RunCreate == Callable("create_event") /\ DoCreate
RunList == Callable("list_upcoming_events") /\ DoList
RunUpdateGet == Callable("update_event") /\ DoUpdateGet
RunUpdatePut == Callable("update_event") /\ DoUpdatePut
RunDelete == Callable("delete_event") /\ DoDelete

\* the agents over the adapter, with the clock and the other clients of the
\* calendar standing still
NextSession ==
    \/ ConstructDelegate
    \/ ConstructKai
    \/ KaiRun
    \/ ProcessCalendarRequest
    \/ EndRun
    \/ RunGetCurrentDate
    \/ RunCreate
    \/ RunList
    \/ RunUpdateGet
    \/ RunUpdatePut
    \/ RunDelete

SpecSession == Init /\ [][NextSession]_vars

\* an operation of the adapter has just been called (or is between its two
\* requests)
ToolCalled == last.op \in AdapterTools \cup { "update_event:get" }

\* C11 as claimed: every operation of the adapter called in a run the
\* Coordinator started is called by the Delegate, entered through
\* process_calendar_request, never by the Coordinator itself.
C11_ThroughDelegate ==
    (origin = "Coordinator" /\ ToolCalled) => caller = "Delegate"

CreateSucceeded ==
    /\ last.op = "create_event"
    /\ last.result.type = "str"
    /\ last.result.prefix = "Event created successfully: "

\* the session state's event list holds an event with the id
Known(id) ==
    \E j \in 1..Len(session_state.events) : session_state.events[j].id = id

\* C13 as claimed: the session state's event list is empty when the process
\* starts, and after a successful list_upcoming_events or create_event of
\* the Coordinator's run it holds the events listed and the event created.
C13_SessionReflects ==
    /\ turns = 0 => session_state.events = << >>
    /\ (caller = "Coordinator" /\ last.op = "list_upcoming_events"
          /\ last.result.type = "list")
         => \A i \in 1..Len(last.result.items) : Known(last.result.items[i].id)
    /\ (caller = "Coordinator" /\ CreateSucceeded) => Known(last.arg)

\* =========================================================================
\* The interactive loop: main() of src/kai/manager.py
\* =========================================================================

UpperCase == << "A", "B", "C", "D", "E", "F", "G", "H", "I", "J", "K", "L", "M", "N", "O", "P", "Q", "R", "S", "T", "U", "V", "W", "X", "Y", "Z" >>
LowerCase == << "a", "b", "c", "d", "e", "f", "g", "h", "i", "j", "k", "l", "m", "n", "o", "p", "q", "r", "s", "t", "u", "v", "w", "x", "y", "z" >>

\* str.lower() and str.upper() on ASCII text
LowerChar(c) ==
    IF \E i \in DOMAIN UpperCase : UpperCase[i] = c
    THEN LowerCase[CHOOSE i \in DOMAIN UpperCase : UpperCase[i] = c]
    ELSE c
UpperChar(c) ==
    IF \E i \in DOMAIN LowerCase : LowerCase[i] = c
    THEN UpperCase[CHOOSE i \in DOMAIN LowerCase : LowerCase[i] = c]
    ELSE c
PyLower(s) == [i \in 1..Len(s) |-> LowerChar(s[i])]
PyUpper(s) == [i \in 1..Len(s) |-> UpperChar(s[i])]

\* str.strip(): leading and trailing whitespace removed; the characters c
\* with c.isspace()
Whitespace ==
    { "\t", "\n", "<U+000B>", "\f", "\r", "<U+001C>", "<U+001D>",
      "<U+001E>", "<U+001F>", " ", "<U+0085>", "<U+00A0>", "<U+1680>",
      "<U+2000>", "<U+2001>", "<U+2002>", "<U+2003>", "<U+2004>",
      "<U+2005>", "<U+2006>", "<U+2007>", "<U+2008>", "<U+2009>",
      "<U+200A>", "<U+2028>", "<U+2029>", "<U+202F>", "<U+205F>",
      "<U+3000>" }
RECURSIVE LStrip(_)
LStrip(s) ==
    IF s # << >> /\ s[1] \in Whitespace THEN LStrip(Tail(s)) ELSE s
RECURSIVE RStrip(_)
RStrip(s) ==
    IF s # << >> /\ s[Len(s)] \in Whitespace THEN RStrip(SubSeq(s, 1, Len(s) - 1)) ELSE s
PyStrip(s) == RStrip(LStrip(s))

\* the keywords the banner printed at the start announces:
\* "(escribi 'exit' o 'quit' para salir)"
BannerKeywords == { << "e", "x", "i", "t" >>, << "q", "u", "i", "t" >> }

\* the tuple the loop compares the line with
ExitKeywords == { << "e", "x", "i", "t" >>, << "c", "h", "a", "u" >>, << "s", "a", "l", "i", "r" >> }

\* the lines typed: words in lower case, in upper case and capitalised, bare
\* and with whitespace around them
Words == { << "e", "x", "i", "t" >>, << "q", "u", "i", "t" >>, << "c", "h", "a", "u" >>, << "s", "a", "l", "i", "r" >>, << "h", "o", "l", "a" >>, << "e", "x", " ", "i", "t" >>, << >> }
Cased(w) ==
    { w, PyUpper(w), IF w = << >> THEN w ELSE << UpperChar(w[1]) >> \o Tail(w) }
Padded(w) ==
    { w, << " " >> \o w, w \o << " " >>, << " ", "\t" >> \o w \o << " ", " " >>,
      w \o << "<U+000B>" >>, << "<U+00A0>" >> \o w \o << "<U+3000>" >> }
TypedLines == UNION { UNION { Padded(c) : c \in Cased(w) } : w \in Words }

MaxLines == 2           \* lines read by one run of the loop

\* print("... KAI esta listo para charlar! ...")
MainBanner ==
    /\ loop = "start"
    /\ loop' = "input"
    /\ UNCHANGED << typed, user_input, dispatched, lines >>
    /\ UNCHANGED besideLoop

\* user_input = input("> Joa: ").strip() and the exit check
MainInput ==
    /\ loop = "input"
    /\ lines < MaxLines
    /\ \E line \in TypedLines :
         /\ typed' = Str(line)
         /\ user_input' = Str(PyStrip(line))
         /\ loop' = IF PyLower(PyStrip(line)) \in ExitKeywords THEN "done" ELSE "respond"
    /\ dispatched' = 0
    /\ lines' = lines + 1
    /\ UNCHANGED besideLoop

\* input() raises: Ctrl-C ends the loop, the end of the input is reported
\* and the loop goes on
MainInputRaises ==
    /\ loop = "input"
    /\ \E e \in { "KeyboardInterrupt", "EOFError" } :
         loop' = IF e = "KeyboardInterrupt" THEN "done" ELSE "input"
    /\ typed' = None
    /\ dispatched' = 0
    /\ UNCHANGED << user_input, lines >>
    /\ UNCHANGED besideLoop

\* KAI.print_response(user_input, stream=True): it returns, raises an
\* exception the loop reports, or is interrupted
MainRespond ==
    /\ loop = "respond"
    /\ dispatched' = dispatched + 1
    /\ \E o \in { "returns", "Exception", "KeyboardInterrupt" } :
         loop' = IF o = "KeyboardInterrupt" THEN "done" ELSE "input"
    /\ UNCHANGED << typed, user_input, lines >>
    /\ UNCHANGED besideLoop

NextLoop ==
    \/ MainBanner
    \/ MainInput
    \/ MainInputRaises
    \/ MainRespond

\* the operations at rest
QuietAdapter ==
    /\ constructed = FALSE /\ service = "None"
    /\ store = EmptyStore /\ nextId = 1 /\ clock = 1 /\ upd = None
    /\ last = Last("none", Nothing, 0, None, None, None)
    /\ calls = 0 /\ external = 0 /\ teamsync = 0 /\ kept = TRUE

QuietDate == cd_in = None /\ cd_out = None /\ cd_again = None

InitLoop == QuietLoop /\ QuietDate /\ QuietAdapter /\ QuietForms /\ QuietSession

SpecLoop == InitLoop /\ [][NextLoop]_vars

\* the line typed, stripped and in lower case
Keyword == PyLower(PyStrip(typed.s))

\* C12 as claimed: a line that is, in any letter case and with whitespace
\* around it, one of the keywords the banner announces ('exit', 'quit') ends
\* the loop without being dispatched; any other line is dispatched as exactly
\* one request, and the loop prompts again once the response returned.
C12_BannerKeywordsEndLoop ==
    typed # None =>
        IF Keyword \in BannerKeywords
        THEN loop = "done" /\ dispatched = 0
        ELSE /\ dispatched <= 1
             /\ loop = "respond" \/ dispatched = 1
             /\ loop = "input" => dispatched = 1

\* =========================================================================
\* One timestamp in its two input forms: the start_time / end_time branches
\* of create_event and update_event
\* =========================================================================

FormYears == { 2023, 2024, 2025 }
FormMonths == { 2, 5, 6, 12 }
FormDays == { 1, 29, 31 }
FormZones == { "none", "UTC" }
\* hour, minute, second, microsecond
FormTimes == { << 10, 0, 0, 0 >>, << 10, 30, 15, 250000 >> }

\* the datetime objects given
FormInputs ==
    { dt \in { Datetime(y, m, d, t[1], t[2], t[3], t[4], tz) :
                 y \in FormYears, m \in FormMonths, d \in FormDays,
                 t \in FormTimes, tz \in FormZones } :
        DatetimeOk(dt.year, dt.month, dt.day) }

InitForms ==
    /\ given \in FormInputs
    /\ sent_str = None
    /\ sent_dt = None
    /\ QuietDate /\ QuietAdapter /\ QuietLoop /\ QuietSession

\* the argument is the ISO string of the instant
SendString ==
    /\ sent_str = None
    /\ sent_str' = Str(CorrectedArg(Str(IsoFormat(given))))
    /\ UNCHANGED << given, sent_dt >>
    /\ UNCHANGED besideForms

\* the argument is the datetime object
SendDatetime ==
    /\ sent_dt = None
    /\ sent_dt' = Str(CorrectedArg(given))
    /\ UNCHANGED << given, sent_str >>
    /\ UNCHANGED besideForms

NextForms == SendString \/ SendDatetime

SpecForms == InitForms /\ [][NextForms]_vars

\* the dateTime sent bears the year and the month of the instant given
KeepsYearAndMonth(out) ==
    YearOf(out) = Pad4(given.year) /\ MonthOf(out) = Pad2(given.month)

\* C14 as claimed: for one instant given as its ISO string and as a datetime
\* object, the two dateTime values sent to the backend bear the same year
\* and the same month, and when the year given is not 2024 both bear the
\* year and the month given.
C14_FormsAgree ==
    (sent_str # None /\ sent_dt # None) =>
        /\ YearOf(sent_str) = YearOf(sent_dt)
        /\ MonthOf(sent_str) = MonthOf(sent_dt)
        /\ given.year # PyInt(WRONG_YEAR) =>
             KeepsYearAndMonth(sent_str) /\ KeepsYearAndMonth(sent_dt)

\* =========================================================================
\* The operations and the system clock: properties
\* =========================================================================

\* C15 as claimed: whatever the date of the system clock (29 February of
\* 2024 and the 31st of a month included), each of get_current_date,
\* create_event, list_upcoming_events, update_event and delete_event returns
\* a value and does not raise.
C15_NeverRaises ==
    last.op \in AdapterTools => last.raised = "none" /\ last.result # None

\* the system clock when the operation was called
Now == ClockReadings[clock]

\* C16 as claimed: the lower time bound list_upcoming_events sends bears the
\* year and the month get_current_date reports for the same reading of the
\* system clock, with the day and the time of day of the reading.
C16_LowerBoundAnchored ==
    (last.op = "list_upcoming_events" /\ last.requests = << "list" >>) =>
        /\ SubSeq(TimeMin, 1, 4) = get_current_date(store, Now).result.year
        /\ SubSeq(TimeMin, 6, 7) = get_current_date(store, Now).result.month
        /\ SubSeq(TimeMin, 9, 10) = Pad2(Now.day)
        /\ SubSeq(TimeMin, 12, 11 + Len(TimeText(Now))) = TimeText(Now)

====
